---- MODULE Spec2Model ----
(***************************************************************************)
(* dmm: a dependency-manifest manager for Deno.  The model covers the two  *)
(* generations of the code that are in the repository:                     *)
(*   - src/dmm.ts: getModulesFromDepsFile, addGitHubUrlForModules,         *)
(*     addLatestReleaseForModules, purposes.check, purposes.update          *)
(*     (impl = "dmm");                                                     *)
(*   - the subcommands: UpdateSubcommand.handle (src/unnamed/part_000) and *)
(*     check (src/unnamed/part_001), on top of                             *)
(*     ModuleService.constructModulesDataFromDeps (impl = "cli").          *)
(* Manifest text is a string; JavaScript's string functions are modelled   *)
(* by what they compute (0-based indices, -1 for "not found").  The        *)
(* requested names (args) are the list the command line was parsed into:   *)
(* modulesForPurpose in dmm.ts, dependencies in the subcommands.  The      *)
(* order of the steps of dmm.ts (parse, repository, latest release, then   *)
(* the purpose) is the order its functions feed one another.               *)
(***************************************************************************)
EXTENDS Integers, Sequences, FiniteSets, TLC

VARIABLES
    file,                  \* content of deps.ts on disk
    impl,                  \* "dmm" | "cli": which generation of the code runs
    purpose,               \* "check" | "update"
    args,                  \* modulesForPurpose / dependencies: requested names
    latest,                \* the release resolver: third-party name -> version
    denoStdLatestVersion,  \* the std version imported from deps.ts
    pc,                    \* position of the invocation
    modules,               \* the Module[] the invocation works on
    allModules,            \* cli: what constructModulesDataFromDeps returned
    out,                   \* console output, one record per report
    exitCode,              \* -1 while running
    reads,                 \* reads of deps.ts by this invocation
    writes,                \* writes of deps.ts by this invocation
    run,                   \* number of the invocation
    ext,                   \* writes to deps.ts by other processes so far
    decl,                  \* the declarations the initial manifest was built from
    parsedText,            \* the text the parser read in this invocation
    baseText,              \* the text the rewriter read in this invocation
    written,               \* the text this invocation wrote
    prevWritten,           \* the text the previous invocation wrote
    steps                  \* one record per replacement the rewriter attempted

vars == <<file, impl, purpose, args, latest, denoStdLatestVersion, pc, modules,
          allModules, out, exitCode, reads, writes, run, ext, decl, parsedText,
          baseText, written, prevWritten, steps>>

(***************************************************************************)
(* Bounds of the model.                                                    *)
(***************************************************************************)
MaxLines == 2
MaxArgs == 1
MaxRuns == 2
MaxExternal == 1

(***************************************************************************)
(* JavaScript string functions.                                            *)
(***************************************************************************)
Min(S) == CHOOSE x \in S : \A y \in S : x <= y
Max(S) == CHOOSE x \in S : \A y \in S : x >= y

\* 0-based positions at which p occurs in s
Occurrences(s, p) ==
    {i \in 0..(Len(s) - Len(p)) : SubSeq(s, i + 1, i + Len(p)) = p}

\* String.prototype.indexOf: -1 when p does not occur
indexOf(s, p) ==
    LET occ == Occurrences(s, p)
    IN  IF occ = {} THEN -1 ELSE Min(occ)

\* String.prototype.lastIndexOf
lastIndexOf(s, p) ==
    LET occ == Occurrences(s, p)
    IN  IF occ = {} THEN -1 ELSE Max(occ)

\* String.prototype.substring: arguments are clamped to [0, length] and swapped
\* when start > end
substring(s, a, b) ==
    LET ca == IF a < 0 THEN 0 ELSE IF a > Len(s) THEN Len(s) ELSE a
        cb == IF b < 0 THEN 0 ELSE IF b > Len(s) THEN Len(s) ELSE b
        lo == IF ca <= cb THEN ca ELSE cb
        hi == IF ca <= cb THEN cb ELSE ca
    IN  SubSeq(s, lo + 1, hi)

\* String.prototype.replace with a string pattern: the first occurrence only;
\* the text is returned as it is when the pattern does not occur.  (No version
\* of the model holds a "$", so the replacement is taken literally.)
replace(s, old, new) ==
    LET i == indexOf(s, old)
    IN  IF i = -1 THEN s
        ELSE SubSeq(s, 1, i) \o new \o SubSeq(s, i + Len(old) + 1, Len(s))

\* String.prototype.split with a non-empty separator
RECURSIVE split(_, _)
split(s, sep) ==
    LET i == indexOf(s, sep)
    IN  IF i = -1 THEN <<s>>
        ELSE <<SubSeq(s, 1, i)>> \o split(SubSeq(s, i + Len(sep) + 1, Len(s)), sep)

\* Array.prototype.indexOf
arrayIndexOf(arr, x) ==
    IF \E k \in 1..Len(arr) : arr[k] = x
    THEN Min({k \in 1..Len(arr) : arr[k] = x}) - 1
    ELSE -1

(***************************************************************************)
(* The manifests the model starts from.                                    *)
(***************************************************************************)
Versions == {"1", "2"}

\* the third-party modules the registry (database.json) knows
Registry == {"b", "ab", "b1"}

stdLine(name, version) ==
    [kind |-> "std", name |-> name, version |-> version,
     url |-> "https://deno.land/std@" \o version \o "/" \o name \o "/mod.ts",
     text |-> "export { a } from \"https://deno.land/std@" \o version \o "/"
              \o name \o "/mod.ts\";"]

xLine(name, version, entry) ==
    [kind |-> "x", name |-> name, version |-> version,
     url |-> "https://deno.land/x/" \o name \o "@" \o version \o "/" \o entry,
     text |-> "import { b } from \"https://deno.land/x/" \o name \o "@" \o version
              \o "/" \o entry \o "\";"]

otherLine(text) ==
    [kind |-> "other", name |-> "", version |-> "", url |-> "", text |-> text]

Pool ==
    { stdLine("fs", "1"), stdLine("fsx", "1"),
      xLine("b", "1", "mod.ts"), xLine("ab", "1", "mod.ts"),
      xLine("b1", "1", "mod.ts"), xLine("b", "1", "deps.ts"),
      otherLine("// pin b@1"),
      otherLine("import { c } from \"https://deno.land/std/fs/mod.ts\";") }

RECURSIVE SeqsUpTo(_, _)
SeqsUpTo(S, n) ==
    IF n = 0 THEN {<<>>}
    ELSE LET shorter == SeqsUpTo(S, n - 1)
         IN  shorter \cup {Append(q, x) : q \in shorter, x \in S}

RECURSIVE render(_)
render(ds) ==
    IF Len(ds) = 0 THEN "" ELSE ds[1].text \o "\n" \o render(Tail(ds))

\* the manifests of the single-invocation specification
PoolOnce ==
    { stdLine("fs", "1"),
      xLine("b", "1", "mod.ts"), xLine("ab", "1", "mod.ts"),
      otherLine("// pin b@1"),
      otherLine("import { c } from \"https://deno.land/std/fs/mod.ts\";") }

ArgNames == {"b", "fs"}

\* what the resolver may answer: b and ab are at 1 or 2, b1 has a release 2
\* (TablesOnce: ab is up to date)
Tables == {t \in [Registry -> Versions] : t["b1"] = "2"}
TablesOnce == {t \in Tables : t["ab"] = "1"}


\* another process may leave one of these texts in deps.ts
ExternalTexts == {"", render(<<xLine("b", "2", "mod.ts")>>)}

(***************************************************************************)
(* src/dmm.ts: getModulesFromDepsFile                                      *)
(***************************************************************************)
\* line 75: the line imports from deno.land
hasMarker(dep) == indexOf(dep, "from \"https://deno.land/") # -1

\* line 79
stdOf(dep) == indexOf(dep, "https://deno.land/std") >= 0

\* lines 80-83
urlOf(dep) ==
    substring(dep, lastIndexOf(dep, "from \"") + 6, lastIndexOf(dep, "\""))

\* lines 84-89; for a std line split('/std@')[1] must exist
versionOf(dep, std) ==
    IF std
    THEN split(split(dep, "/std@")[2], "/")[1]
    ELSE substring(dep, lastIndexOf(dep, "@") + 1, lastIndexOf(dep, "/mod.ts"))

\* lines 90-95; for a std line split('@' + version + '/')[1] must exist
nameOf(dep, std, version) ==
    IF std
    THEN split(split(dep, "@" \o version \o "/")[2], "/")[1]
    ELSE substring(dep, lastIndexOf(dep, "/x/") + 3, lastIndexOf(dep, "@"))

\* lines 85 and 91: calling split on undefined throws a TypeError
depThrows(dep) ==
    /\ stdOf(dep)
    /\ \/ Len(split(dep, "/std@")) < 2
       \/ Len(split(dep, "@" \o versionOf(dep, TRUE) \o "/")) < 2

\* lines 79-95 and 99 / 102: the object pushed
moduleOf(dep) ==
    LET std == stdOf(dep)
        version == versionOf(dep, std)
    IN  [std |-> std, name |-> nameOf(dep, std, version), version |-> version,
         url |-> urlOf(dep)]

\* the first requested name is never matched ("> 0" for ">= 0")
wantedFromSecond(modulesForPurpose, name) ==
    \/ Len(modulesForPurpose) # 0 /\ arrayIndexOf(modulesForPurpose, name) > 0
    \/ Len(modulesForPurpose) = 0

\* lines 98-104: whether the module goes into the list
wanted(modulesForPurpose, name) ==
    \/ Len(modulesForPurpose) # 0 /\ arrayIndexOf(modulesForPurpose, name) >= 0
    \/ Len(modulesForPurpose) = 0

\* lines 73-105: the forEach over the lines; a throw ends the function
RECURSIVE collate(_, _, _)
collate(listOfDeps, modulesForPurpose, acc) ==
    IF Len(listOfDeps) = 0 THEN [threw |-> FALSE, modules |-> acc]
    ELSE LET dep == Head(listOfDeps)
         IN  IF ~hasMarker(dep)
             THEN collate(Tail(listOfDeps), modulesForPurpose, acc)
             ELSE IF depThrows(dep)
             THEN [threw |-> TRUE, modules |-> <<>>]
             ELSE LET m == moduleOf(dep)
                  IN  collate(Tail(listOfDeps), modulesForPurpose,
                              IF wanted(modulesForPurpose, m.name)
                              THEN Append(acc, m)
                              ELSE acc)

\* lines 70-71
nonEmptyLines(depsContent) ==
    SelectSeq(split(depsContent, "\n"), LAMBDA dep : dep # "")

\* lines 64-107 as a function of the text read
parseDeps(depsContent, modulesForPurpose) ==
    collate(nonEmptyLines(depsContent), modulesForPurpose, <<>>)


(***************************************************************************)
(* src/dmm.ts: the resolver steps                                          *)
(***************************************************************************)
\* line 123: denoDatabase[module.name].owner throws for a name the registry
\* does not hold
repoThrows(ms) ==
    \E k \in 1..Len(ms) : ~ms[k].std /\ ms[k].name \notin Registry

\* lines 120-128
withRepo(m) ==
    [std |-> m.std, name |-> m.name, version |-> m.version, url |-> m.url,
     repo |-> IF m.std THEN "https://github.com/denoland/deno/std/" \o m.name
              ELSE "https://github.com/o/" \o m.name]

\* lines 141-152: the last segment of the URL that <repo>/releases/latest
\* redirects to, or the std version
withLatestRelease(m) ==
    [std |-> m.std, name |-> m.name, version |-> m.version, url |-> m.url,
     repo |-> m.repo,
     latestRelease |-> IF m.std THEN denoStdLatestVersion ELSE latest[m.name]]

\* module.updated === true (the field is absent until update sets it)
isUpdated(m) == "updated" \in DOMAIN m /\ m.updated

(***************************************************************************)
(* src/dmm.ts: purposes.check and purposes.update                          *)
(***************************************************************************)
\* the name is compared in place of the version
canBeUpdatedByName(m) == m.name # m.latestRelease

\* line 165
canBeUpdated(m) == m.version # m.latestRelease

\* lines 164-170 and 172-176: the reports of check
checkReports(ms) ==
    LET outdated == SelectSeq(ms, canBeUpdated)
        lines == [k \in 1..Len(outdated) |->
                    [kind |-> "can be updated", name |-> outdated[k].name,
                     from |-> outdated[k].version,
                     to |-> outdated[k].latestRelease]]
    IN  lines \o
        (IF Len(outdated) > 0
         THEN <<[kind |-> "to update, run",
                 names |-> [k \in 1..Len(outdated) |-> outdated[k].name]]>>
         ELSE <<[kind |-> "up to date"]>>)

\* lines 186 and 193: only re-write modules that need to be updated
needsRewrite(m) ==
    IF m.std THEN m.version # denoStdLatestVersion
    ELSE m.version # m.latestRelease

\* lines 189 and 196: the text searched for
oldFragment(m) ==
    IF m.std THEN "std@" \o m.version \o "/" \o m.name
    ELSE m.name \o "@" \o m.version

\* lines 189 and 196: the text put in its place
newFragment(m) ==
    IF m.std THEN "std@" \o denoStdLatestVersion \o "/" \o m.name
    ELSE m.name \o "@" \o m.latestRelease

\* line 190 / 197: module.updated = true
marked(m) == [k \in DOMAIN m \cup {"updated"} |->
                IF k = "updated" THEN TRUE ELSE m[k]]

stepOf(m, old, new, before) ==
    [std |-> m.std, name |-> m.name, old |-> old, new |-> new,
     before |-> before, after |-> replace(before, old, new)]

\* lines 183-199: the forEach over the modules
RECURSIVE rewriteAll(_, _)
rewriteAll(ms, acc) ==
    IF Len(ms) = 0 THEN acc
    ELSE LET m == Head(ms)
         IN  IF ~needsRewrite(m)
             THEN rewriteAll(Tail(ms),
                    [acc EXCEPT !.modules = Append(@, m)])
             ELSE rewriteAll(Tail(ms),
                    [depsContent |->
                        replace(acc.depsContent, oldFragment(m), newFragment(m)),
                     modules |-> Append(acc.modules, marked(m)),
                     steps |-> Append(acc.steps,
                        stepOf(m, oldFragment(m), newFragment(m),
                               acc.depsContent))])

\* lines 203-214: the reports of update
updateReports(ms) ==
    LET done == SelectSeq(ms, isUpdated)
    IN  IF Len(done) >= 1
        THEN [k \in 1..Len(done) |->
                [kind |-> "was updated", name |-> done[k].name,
                 from |-> done[k].version,
                 to |-> IF done[k].std THEN denoStdLatestVersion
                        ELSE done[k].latestRelease]]
        ELSE <<[kind |-> "already up to date"]>>


(***************************************************************************)
(* ModuleService.constructModulesDataFromDeps is not among the sources; it *)
(* is modelled from the specification of the manifest parser and of the    *)
(* release resolver.                                                       *)
(***************************************************************************)
afterStdAt(url) == SubSeq(url, Len("https://deno.land/std@") + 1, Len(url))
afterX(url) == SubSeq(url, Len("https://deno.land/x/") + 1, Len(url))
afterLastAt(url) == SubSeq(url, lastIndexOf(url, "@") + 2, Len(url))

\* the quoted URL has one of the two known layouts
recognizedUrl(url) ==
    \/ /\ indexOf(url, "https://deno.land/std@") = 0
       /\ Len(split(afterStdAt(url), "/")) >= 3
    \/ /\ indexOf(url, "https://deno.land/x/") = 0
       /\ indexOf(afterX(url), "@") > 0
       /\ indexOf(afterLastAt(url), "/") > 0

recognized(dep) == hasMarker(dep) /\ recognizedUrl(urlOf(dep))

recordOf(dep) ==
    LET url == urlOf(dep)
        std == indexOf(url, "https://deno.land/std@") = 0
    IN  [std |-> std,
         name |-> IF std THEN split(afterStdAt(url), "/")[2]
                  ELSE SubSeq(afterX(url), 1, lastIndexOf(afterX(url), "@")),
         importedVersion |-> IF std THEN split(afterStdAt(url), "/")[1]
                             ELSE split(afterLastAt(url), "/")[1],
         importUrl |-> url]

resolved(r) ==
    [std |-> r.std, name |-> r.name, importedVersion |-> r.importedVersion,
     importUrl |-> r.importUrl,
     latestRelease |-> IF r.std THEN denoStdLatestVersion ELSE latest[r.name]]

declaredRecords(depsContent) ==
    LET deps == SelectSeq(nonEmptyLines(depsContent), recognized)
    IN  [k \in 1..Len(deps) |-> recordOf(deps[k])]

\* the resolver fails for a module the registry does not hold
resolutionFails(records) ==
    \E k \in 1..Len(records) : ~records[k].std /\ records[k].name \notin Registry

constructModulesDataFromDeps(records) ==
    [k \in 1..Len(records) |-> resolved(records[k])]

(***************************************************************************)
(* src/unnamed/part_000 (UpdateSubcommand.handle) and part_001 (check)     *)
(***************************************************************************)
\* part_000 lines 19-25, part_001 lines 14-20: the filter's callback
selected(dependencies, m) ==
    IF Len(dependencies) # 0
    THEN arrayIndexOf(dependencies, m.name) > -1
    ELSE TRUE

selectModules(all, dependencies) ==
    SelectSeq(all, LAMBDA m : selected(dependencies, m))

\* part_001 line 34
cliCanBeUpdated(m) == m.importedVersion # m.latestRelease

\* part_001 lines 31-51
cliCheckReports(ms) ==
    LET outdated == SelectSeq(ms, cliCanBeUpdated)
        lines == [k \in 1..Len(outdated) |->
                    [kind |-> "can be updated", name |-> outdated[k].name,
                     from |-> outdated[k].importedVersion,
                     to |-> outdated[k].latestRelease]]
    IN  lines \o
        (IF Len(outdated) > 0
         THEN <<[kind |-> "to update, run",
                 names |-> [k \in 1..Len(outdated) |-> outdated[k].name]]>>
         ELSE <<[kind |-> "up to date"]>>)

\* part_000 line 45
cliNeedsRewrite(m) == m.importedVersion # m.latestRelease

\* part_000 lines 50 and 59: the text searched for
cliOldFragment(m) ==
    IF m.std THEN "std@" \o m.importedVersion \o "/" \o m.name
    ELSE m.importUrl

\* part_000 lines 51 and 54-58: the text put in its place
cliNewFragment(m) ==
    IF m.std THEN "std@" \o m.latestRelease \o "/" \o m.name
    ELSE replace(m.importUrl, m.importedVersion, m.latestRelease)

\* part_000 lines 43-66: the forEach over the modules
RECURSIVE cliRewriteAll(_, _)
cliRewriteAll(ms, acc) ==
    IF Len(ms) = 0 THEN acc
    ELSE LET m == Head(ms)
         IN  IF ~cliNeedsRewrite(m)
             THEN cliRewriteAll(Tail(ms), acc)
             ELSE cliRewriteAll(Tail(ms),
                    [depsContent |->
                        replace(acc.depsContent, cliOldFragment(m),
                                cliNewFragment(m)),
                     out |-> Append(acc.out,
                        [kind |-> "was updated", name |-> m.name,
                         from |-> m.importedVersion, to |-> m.latestRelease]),
                     depsWereUpdated |-> TRUE,
                     steps |-> Append(acc.steps,
                        stepOf(m, cliOldFragment(m), cliNewFragment(m),
                               acc.depsContent))])

(***************************************************************************)
(* The state machine: one invocation after another on the same deps.ts.    *)
(***************************************************************************)
InitFrom(pool, tables) ==
    /\ decl \in SeqsUpTo(pool, MaxLines)
    /\ file = render(decl)
    /\ impl \in {"dmm", "cli"}
    /\ purpose \in {"check", "update"}
    /\ args \in SeqsUpTo(ArgNames, MaxArgs)
    /\ latest \in tables
    /\ denoStdLatestVersion \in Versions
    /\ pc = "start"
    /\ modules = <<>>
    /\ allModules = <<>>
    /\ out = <<>>
    /\ exitCode = -1
    /\ reads = 0
    /\ writes = 0
    /\ run = 1
    /\ ext = 0
    /\ parsedText = ""
    /\ baseText = ""
    /\ written = ""
    /\ prevWritten = ""
    /\ steps = <<>>

Init == InitFrom(Pool, Tables)

InitOnce == InitFrom(PoolOnce, TablesOnce)

env == <<impl, purpose, args, latest, denoStdLatestVersion, run, decl, prevWritten>>

\* an uncaught exception ends the process with status 1
Threw ==
    /\ pc' = "threw"
    /\ exitCode' = 1

uncaught(where) == [kind |-> "uncaught", in |-> where]

\* dmm.ts lines 64-107
getModulesFromDepsFile ==
    /\ pc = "start" /\ impl = "dmm"
    /\ reads' = reads + 1
    /\ parsedText' = file
    /\ LET res == parseDeps(file, args)
       IN  IF res.threw
           THEN Threw /\ UNCHANGED modules
           ELSE /\ pc' = "parsed"
                /\ modules' = res.modules
                /\ UNCHANGED exitCode
    /\ out' = IF pc' = "threw"
              THEN Append(out, uncaught("getModulesFromDepsFile"))
              ELSE out \o [k \in 1..Len(modules') |->
                             [kind |-> "added", name |-> modules'[k].name]]
    /\ UNCHANGED <<file, allModules, writes, ext, baseText, written, steps>>
    /\ UNCHANGED env

\* dmm.ts lines 117-130
addGitHubUrlForModules ==
    /\ pc = "parsed" /\ impl = "dmm"
    /\ IF repoThrows(modules)
       THEN Threw /\ UNCHANGED modules
       ELSE /\ pc' = "repos"
            /\ modules' = [k \in 1..Len(modules) |-> withRepo(modules[k])]
            /\ UNCHANGED exitCode
    /\ out' = IF pc' = "threw"
              THEN Append(out, uncaught("addGitHubUrlForModules"))
              ELSE out
    /\ UNCHANGED <<file, allModules, reads, writes, ext, parsedText,
                   baseText, written, steps>>
    /\ UNCHANGED env

\* dmm.ts lines 140-154
addLatestReleaseForModules ==
    /\ pc = "repos" /\ impl = "dmm"
    /\ pc' = "resolved"
    /\ modules' = [k \in 1..Len(modules) |-> withLatestRelease(modules[k])]
    /\ UNCHANGED <<file, allModules, out, exitCode, reads, writes, ext,
                   parsedText, baseText, written, steps>>
    /\ UNCHANGED env

\* dmm.ts lines 160-177
purposes_check ==
    /\ pc = "resolved" /\ impl = "dmm" /\ purpose = "check"
    /\ out' = out \o checkReports(modules)
    /\ pc' = "done"
    /\ exitCode' = 0
    /\ UNCHANGED <<file, modules, allModules, reads, writes, ext, parsedText,
                   baseText, written, steps>>
    /\ UNCHANGED env

\* dmm.ts lines 178-215
purposes_update ==
    /\ pc = "resolved" /\ impl = "dmm" /\ purpose = "update"
    /\ reads' = reads + 1
    /\ baseText' = file
    /\ LET res == rewriteAll(modules,
                    [depsContent |-> file, modules |-> <<>>, steps |-> <<>>])
       IN  /\ file' = res.depsContent
           /\ written' = res.depsContent
           /\ modules' = res.modules
           /\ steps' = res.steps
           /\ out' = out \o updateReports(res.modules)
    /\ writes' = writes + 1
    /\ pc' = "done"
    /\ exitCode' = 0
    /\ UNCHANGED <<allModules, ext, parsedText>>
    /\ UNCHANGED env

\* part_000 line 16 / part_001 line 13: the awaited call
constructModulesData ==
    /\ pc = "start" /\ impl = "cli"
    /\ reads' = reads + 1
    /\ parsedText' = file
    /\ LET records == declaredRecords(file)
       IN  IF resolutionFails(records)
           THEN Threw /\ UNCHANGED allModules
           ELSE /\ pc' = "resolved"
                /\ allModules' = constructModulesDataFromDeps(records)
                /\ UNCHANGED exitCode
    /\ out' = IF pc' = "threw"
              THEN Append(out, uncaught("constructModulesDataFromDeps"))
              ELSE out
    /\ UNCHANGED <<file, modules, writes, ext, baseText, written, steps>>
    /\ UNCHANGED env

\* part_000 lines 27-32, part_001 lines 22-27
noModules ==
    /\ out' = Append(out, [kind |-> "error"])
    /\ pc' = "exit1"
    /\ exitCode' = 1

\* part_001 lines 14-51
check ==
    /\ pc = "resolved" /\ impl = "cli" /\ purpose = "check"
    /\ modules' = selectModules(allModules, args)
    /\ IF Len(modules') = 0
       THEN noModules
       ELSE /\ out' = out \o cliCheckReports(modules')
            /\ pc' = "done"
            /\ exitCode' = 0
    /\ UNCHANGED <<file, allModules, reads, writes, ext, parsedText, baseText,
                   written, steps>>
    /\ UNCHANGED env

\* part_000 lines 19-77
UpdateSubcommand_handle ==
    /\ pc = "resolved" /\ impl = "cli" /\ purpose = "update"
    /\ modules' = selectModules(allModules, args)
    /\ IF Len(modules') = 0
       THEN /\ noModules
            /\ UNCHANGED <<file, reads, writes, baseText, written, steps>>
       ELSE /\ reads' = reads + 1
            /\ baseText' = file
            /\ LET res == cliRewriteAll(modules',
                            [depsContent |-> file, out |-> <<>>,
                             depsWereUpdated |-> FALSE, steps |-> <<>>])
               IN  /\ file' = res.depsContent
                   /\ written' = res.depsContent
                   /\ steps' = res.steps
                   /\ out' = out \o res.out \o
                             (IF ~res.depsWereUpdated
                              THEN <<[kind |-> "already up to date"]>>
                              ELSE <<>>)
            /\ writes' = writes + 1
            /\ pc' = "done"
            /\ exitCode' = 0
    /\ UNCHANGED <<allModules, ext, parsedText>>
    /\ UNCHANGED env

\* another process writes deps.ts while the invocation awaits the resolver
ExternalWrite ==
    /\ pc = "resolved"
    /\ ext < MaxExternal
    /\ \E text \in ExternalTexts : file' = text
    /\ ext' = ext + 1
    /\ UNCHANGED <<pc, modules, allModules, out, exitCode, reads, writes,
                   parsedText, baseText, written, steps>>
    /\ UNCHANGED env

\* the same command is run again on the file as it is now
NextRun ==
    /\ pc = "done" /\ purpose = "update"
    /\ run < MaxRuns
    /\ run' = run + 1
    /\ prevWritten' = written
    /\ pc' = "start"
    /\ modules' = <<>>
    /\ allModules' = <<>>
    /\ out' = <<>>
    /\ exitCode' = -1
    /\ reads' = 0
    /\ writes' = 0
    /\ parsedText' = ""
    /\ baseText' = ""
    /\ written' = ""
    /\ steps' = <<>>
    /\ UNCHANGED <<file, impl, purpose, args, latest, denoStdLatestVersion,
                   ext, decl>>

Next ==
    \/ getModulesFromDepsFile
    \/ addGitHubUrlForModules
    \/ addLatestReleaseForModules
    \/ purposes_check
    \/ purposes_update
    \/ constructModulesData
    \/ check
    \/ UpdateSubcommand_handle
    \/ ExternalWrite
    \/ NextRun

Spec == Init /\ [][Next]_vars

\* one invocation, no other process
NextOnce ==
    \/ getModulesFromDepsFile
    \/ addGitHubUrlForModules
    \/ addLatestReleaseForModules
    \/ purposes_check
    \/ purposes_update
    \/ constructModulesData
    \/ check
    \/ UpdateSubcommand_handle

SpecOnce == InitOnce /\ [][NextOnce]_vars


(***************************************************************************)
(* What the claims speak of.                                               *)
(***************************************************************************)
Range(q) == {q[k] : k \in 1..Len(q)}

linesOf(text) == split(text, "\n")

\* the version the manifest gives a record, in either generation of the code
declaredVersion(m) == IF impl = "dmm" THEN m.version ELSE m.importedVersion

\* what the resolver answers for a module
latestFor(std, name) == IF std THEN denoStdLatestVersion ELSE latest[name]

\* the records a text declares when nothing is filtered out; none if the
\* parser throws
declaredIn(text) ==
    IF impl = "dmm"
    THEN parseDeps(text, <<>>).modules
    ELSE declaredRecords(text)

requested(name) == Len(args) = 0 \/ name \in Range(args)

\* the selected records that are out of date
outdated == SelectSeq(modules,
                LAMBDA m : declaredVersion(m) # latestFor(m.std, m.name))

namesOf(q) == [k \in 1..Len(q) |-> q[k].name]

reports(kind) == SelectSeq(out, LAMBDA r : r.kind = kind)

updateDone == pc = "done" /\ purpose = "update"

\* the line declares a module that this update rewrites
declaresOutdated(line) ==
    \E r \in Range(declaredIn(line)) : r.name \in Range(namesOf(outdated))

\* a replacement found its fragment
found(step) == indexOf(step.before, step.old) # -1


(***************************************************************************)
(* C1 - Locality of update: when an update has written the manifest (no    *)
(* other process having touched it), every line that does not declare a    *)
(* module being updated is the same in the text written as in the text     *)
(* read.                                                                   *)
(***************************************************************************)
Locality ==
    (updateDone /\ ext = 0) =>
        LET old == linesOf(baseText)
            new == linesOf(written)
        IN  /\ Len(new) = Len(old)
            /\ \A i \in 1..Len(old) :
                  ~declaresOutdated(old[i]) => new[i] = old[i]

(***************************************************************************)
(* C2 - Idempotence of update: with a stable resolver and no other writer, *)
(* the second of two successive updates writes the text the first wrote.   *)
(***************************************************************************)
Idempotence ==
    (updateDone /\ run = 2 /\ ext = 0) => written = prevWritten

(***************************************************************************)
(* C3 - Round-trip of update: every record reported as updated is, in the  *)
(* text written, a record of the same name at the resolver's latest        *)
(* version, and its new fragment is the old one with the version segment   *)
(* (after the last "@", up to the next "/") replaced by that version.      *)
(***************************************************************************)
versionSegmentReplaced(old, version) ==
    LET at == lastIndexOf(old, "@")
        rest == SubSeq(old, at + 2, Len(old))
        slash == indexOf(rest, "/")
    IN  SubSeq(old, 1, at + 1) \o version \o
        (IF slash = -1 THEN "" ELSE SubSeq(rest, slash + 1, Len(rest)))

RoundTrip ==
    (updateDone /\ ext = 0) =>
        \A j \in 1..Len(reports("was updated")) :
            LET name == reports("was updated")[j].name
                to == latestFor(steps[j].std, name)
            IN  /\ \E r \in Range(declaredIn(written)) :
                      r.name = name /\ declaredVersion(r) = to
                /\ steps[j].new = versionSegmentReplaced(steps[j].old, to)


(***************************************************************************)
(* C4 - Filter correctness: the records the parser (dmm.ts) and the        *)
(* subcommands keep are the declared records whose name is requested, in   *)
(* their order; all of them when no name is requested.                     *)
(***************************************************************************)
keptOf(records) == SelectSeq(records, LAMBDA m : requested(m.name))

FilterCorrect ==
    /\ (impl = "dmm" /\ pc = "parsed") =>
            modules = keptOf(parseDeps(parsedText, <<>>).modules)
    /\ (impl = "cli" /\ pc \in {"done", "exit1"}) =>
            modules = keptOf(allModules)

\* some declared record is kept and some is dropped
FilterCorrectWitness ==
    /\ impl = "dmm" /\ pc = "parsed" /\ Len(args) > 0
    /\ Len(modules) > 0
    /\ Len(modules) < Len(parseDeps(parsedText, <<>>).modules)

(***************************************************************************)
(* C5 - NoMatchingModules: check and update end with the error and exit    *)
(* status 1, before any comparison or rewrite and without writing the      *)
(* manifest, when names are requested and none of them is declared, and    *)
(* only then.                                                              *)
(***************************************************************************)
noneMatches ==
    Len(args) # 0 /\ \A m \in Range(allModules) : m.name \notin Range(args)

NoMatchingModules ==
    (impl = "cli" /\ pc \in {"done", "exit1"}) =>
        /\ (pc = "exit1") <=> noneMatches
        /\ (pc = "exit1") =>
              /\ exitCode = 1
              /\ writes = 0
              /\ steps = <<>>
              /\ out = <<[kind |-> "error"]>>
              /\ ext = 0 => file = parsedText

(***************************************************************************)
(* C6 - Parser extraction: for every line of the manifest that imports     *)
(* std@<version>/<name>/... or x/<name>@<version>/<entry point>,           *)
(* getModulesFromDepsFile yields the record with that std flag, name,      *)
(* version and URL; version and url are substrings of the text.            *)
(***************************************************************************)
expected(d) ==
    [std |-> d.kind = "std", name |-> d.name, version |-> d.version,
     url |-> d.url]

Extraction ==
    (impl = "dmm" /\ pc = "parsed" /\ run = 1 /\ Len(args) = 0) =>
        /\ \A d \in Range(decl) :
              d.kind \in {"std", "x"} => expected(d) \in Range(modules)
        /\ \A m \in Range(modules) :
              /\ indexOf(parsedText, m.version) # -1
              /\ indexOf(parsedText, m.url) # -1

(***************************************************************************)
(* C7 - Update selection: the records check lists as "can be updated", and *)
(* the records update rewrites and reports, are the selected records whose *)
(* declared version differs from the resolver's latest version; check      *)
(* reports "up to date" exactly when there is none.                        *)
(***************************************************************************)
Selection ==
    /\ (pc = "done" /\ purpose = "check") =>
          /\ namesOf(reports("can be updated")) = namesOf(outdated)
          /\ (reports("up to date") # <<>>) <=> (outdated = <<>>)
    /\ (pc = "done" /\ purpose = "update") =>
          /\ namesOf(reports("was updated")) = namesOf(outdated)
          /\ namesOf(steps) = namesOf(outdated)

\* check has listed one record and passed over another
SelectionWitness ==
    /\ pc = "done" /\ purpose = "check"
    /\ Len(outdated) > 0
    /\ Len(outdated) < Len(modules)
    /\ Len(reports("can be updated")) = Len(outdated)

(***************************************************************************)
(* C8 - Updated flag truthfulness: a record is marked and reported as      *)
(* updated only if its old fragment was found in the text and replaced.    *)
(***************************************************************************)
UpdatedOnlyIfReplaced ==
    (updateDone /\ ext = 0) =>
        /\ Len(reports("was updated")) = Len(steps)
        /\ \A j \in 1..Len(steps) :
              /\ reports("was updated")[j].name = steps[j].name
              /\ found(steps[j])
              /\ steps[j].after # steps[j].before

(***************************************************************************)
(* C9 - Parser robustness: getModulesFromDepsFile never throws, and a line *)
(* with the deno.land marker that has neither the std@<version>/<name> nor *)
(* the x/<name>@<version>/mod.ts layout yields no record.                  *)
(***************************************************************************)
wellFormed(d) ==
    d.kind = "std" \/ (d.kind = "x" /\ indexOf(d.url, "/mod.ts") # -1)

ParserRobust ==
    /\ uncaught("getModulesFromDepsFile") \notin Range(out)
    /\ (impl = "dmm" /\ pc = "parsed" /\ run = 1 /\ Len(args) = 0) =>
          modules = [k \in 1..Len(SelectSeq(decl, wellFormed)) |->
                        expected(SelectSeq(decl, wellFormed)[k])]

(***************************************************************************)
(* C10 - File access of one update: deps.ts is read once and written once, *)
(* and the text rewritten is the text the records were parsed from.        *)
(***************************************************************************)
ReadOnceWriteOnce ==
    updateDone =>
        /\ reads = 1
        /\ writes = 1
        /\ baseText = parsedText

====
